---- MODULE Spec2Model ----
(***************************************************************************)
(* DOMKit: object wrappers around document elements.                       *)
(*                                                                         *)
(* The model holds a small document tree (the platform DOM, with the       *)
(* semantics of createElement, createTextNode, appendChild, append,        *)
(* remove, setAttribute, children, childNodes and parentNode), the         *)
(* TagLegacy handles of src/lib/DOMKit.js and the Tag handles of           *)
(* src/unnamed/part_000.  Every accessor and method is one action; an      *)
(* action that throws keeps the mutations it made before the throw.        *)
(***************************************************************************)
EXTENDS Integers, Sequences, FiniteSets, TLC

VARIABLES dom, legacy, tags, last, ops

vars == <<dom, legacy, tags, last, ops>>

(***************************************************************************)
(* Bounds of the model.                                                    *)
(***************************************************************************)
MaxNodes == 7
MaxHandles == 2
MaxTags == 2
MaxOps == 3

\* null / undefined, and the hole of a sparse array (read as undefined)
Null == 0
\* document.body
Body == 1

Node == 1..MaxNodes
Handle == 1..MaxHandles
TagHandle == 1..MaxTags

\* tag names the callers pass
Types == {"ul", "p"}

\* Attribute mappings are objects with an identity: the callers own two of
\* them, "A1" and "A2"; "fresh" is an object a getter built, "undefined" no
\* object at all.
AttrObjs == {"A1", "A2"}
EmptyMap == [x \in {} |-> ""]
Entries(a) ==
  CASE a = "A1" -> [x \in {"id"} |-> "list1"]
    [] a = "A2" -> [x \in {"id", "title"} |-> IF x = "id" THEN "other" ELSE "t"]
    [] OTHER -> EmptyMap

\* An entry of a child array: a string or a reference to a node.
Str(s) == [k |-> "string", n |-> Null, s |-> s]
Ref(n) == [k |-> "node", n |-> n, s |-> ""]
\* A child array as a handle caches it: whose object it is, and its items.
NoChildren == [items |-> <<>>, ref |-> "undefined"]
CallerArray(items) == [items |-> items, ref |-> "caller"]

\* A position argument of toPosition: "first", "last" or a number.
First == [k |-> 0, kw |-> "first"]
Last == [k |-> 0, kw |-> "last"]
Index(k) == [k |-> k, kw |-> "index"]

(***************************************************************************)
(* The platform document tree.                                             *)
(***************************************************************************)
Free(d) == {n \in Node : d.nodeType[n] = "free"}
NewNode(d) == CHOOSE n \in Free(d) : \A m \in Free(d) : n <= m
Elements(d) == {n \in Node : d.nodeType[n] = "element"}

InSeq(x, s) == \E i \in 1..Len(s) : s[i] = x
Without(s, x) == SelectSeq(s, LAMBDA y : y # x)
IndexOf(x, s) == CHOOSE i \in 1..Len(s) : s[i] = x

\* node.parentNode
parentNode(d, n) ==
  IF \E p \in Node : InSeq(n, d.childNodes[p])
    THEN CHOOSE p \in Node : InSeq(n, d.childNodes[p])
    ELSE Null

\* a is n or an ancestor of n
RECURSIVE IsInclusiveAncestor(_, _, _)
IsInclusiveAncestor(d, a, n) ==
  IF n = Null THEN FALSE
  ELSE IF a = n THEN TRUE
  ELSE IsInclusiveAncestor(d, a, parentNode(d, n))

createElement(d, name) ==
  [d EXCEPT !.nodeType[NewNode(d)] = "element", !.tagName[NewNode(d)] = name]

createTextNode(d, s) ==
  [d EXCEPT !.nodeType[NewNode(d)] = "text", !.data[NewNode(d)] = s]

createDocumentFragment(d) ==
  [d EXCEPT !.nodeType[NewNode(d)] = "fragment"]

\* node.remove(): detach from the parent, if any
removeNode(d, n) ==
  [d EXCEPT !.childNodes = [p \in Node |-> Without(d.childNodes[p], n)]]

\* parent.appendChild(c) throws unless c is a node that is not parent or one
\* of its ancestors, and parent can have children
canAppend(d, p, c) ==
  /\ c \in Node
  /\ p \in Node
  /\ d.nodeType[p] \in {"element", "fragment"}
  /\ ~IsInclusiveAncestor(d, c, p)

\* parent.appendChild(c) for a node c that is no fragment: c moves to the end
appendChild(d, p, c) ==
  [d EXCEPT !.childNodes =
     [q \in Node |-> IF q = p THEN Append(Without(d.childNodes[q], c), c)
                     ELSE Without(d.childNodes[q], c)]]

\* parent.appendChild(fragment): the fragment's children move, in order
appendFragment(d, p, f) ==
  [d EXCEPT !.childNodes =
     [q \in Node |-> IF q = p THEN d.childNodes[p] \o d.childNodes[f]
                     ELSE IF q = f THEN <<>>
                     ELSE d.childNodes[q]]]

\* element.children: the child nodes that are elements
children(d, p) == SelectSeq(d.childNodes[p], LAMBDA c : d.nodeType[c] = "element")

\* element.setAttribute(key, value) for every entry of a mapping
setAttributes(d, n, entries) ==
  [d EXCEPT !.attrs[n] =
     [x \in (DOMAIN d.attrs[n]) \cup (DOMAIN entries) |->
        IF x \in DOMAIN entries THEN entries[x] ELSE d.attrs[n][x]]]

(***************************************************************************)
(* TagLegacy (src/lib/DOMKit.js).  A handle is a record of its fields      *)
(* _type, _attributes, _parent, _children, _tag and _relatives.  _parent   *)
(* holds a node, Null, or (after a mistaken assignment) a handle, written  *)
(* as the negated handle number.                                           *)
(***************************************************************************)
HandleRef(h) == 0 - h

Ok(d, me) == [dom |-> d, me |-> me, threw |-> FALSE]
Threw(d, me) == [dom |-> d, me |-> me, threw |-> TRUE]

\* a constructor loop that walks the child array from its last entry
RECURSIVE appendChildrenBackwards(_, _, _, _)
appendChildrenBackwards(d, tag, items, i) ==
  IF i > Len(items) THEN [dom |-> d, threw |-> FALSE]
  ELSE IF items[Len(items) + 1 - i].k = "string"
    THEN appendChildrenBackwards(
           appendChild(createTextNode(d, items[Len(items) + 1 - i].s), tag, NewNode(d)),
           tag, items, i + 1)
  ELSE IF canAppend(d, tag, items[Len(items) + 1 - i].n)
    THEN appendChildrenBackwards(appendChild(d, tag, items[Len(items) + 1 - i].n),
                                 tag, items, i + 1)
  ELSE [dom |-> d, threw |-> TRUE]

\* the constructor's loop over the child array
RECURSIVE appendChildren(_, _, _, _)
appendChildren(d, tag, items, i) ==
  IF i > Len(items) THEN [dom |-> d, threw |-> FALSE]
  ELSE IF items[i].k = "string"
    THEN appendChildren(appendChild(createTextNode(d, items[i].s), tag, NewNode(d)),
                        tag, items, i + 1)
  ELSE IF canAppend(d, tag, items[i].n)
    THEN appendChildren(appendChild(d, tag, items[i].n), tag, items, i + 1)
  ELSE [dom |-> d, threw |-> TRUE]

\* the constructor, from the attributes on: d is the document holding the
\* new element tag
constructor1(d, tag, type, attributes, p, kids) ==
  [dom |-> IF attributes # "undefined"
             THEN appendChild(setAttributes(d, tag, Entries(attributes)), p, tag)
             ELSE appendChild(d, p, tag),
   me |-> [live |-> TRUE, type |-> type, attributes |-> attributes, parent |-> p,
           children |-> kids, tag |-> tag, relatives |-> <<>>]]

\* the constructor's last part: the children, when an array is given
constructor2(c, kids) ==
  IF kids.ref # "undefined"
    THEN [me |-> c.me] @@ appendChildren(c.dom, c.me.tag, kids.items, 1)
    ELSE [dom |-> c.dom, me |-> c.me, threw |-> FALSE]

\* new TagLegacy(type, attributes, parent, children)
constructor(d, type, attributes, parent, kids) ==
  constructor2(constructor1(createElement(d, type), NewNode(d), type, attributes,
                            IF parent = Null THEN Body ELSE parent, kids),
               kids)

\* set attributes(attributes)
attributesSet(d, H, a) ==
  IF a = H.attributes \/ DOMAIN Entries(a) = {} THEN Ok(d, [H EXCEPT !.attributes = a])
  ELSE IF H.tag = Null \/ d.nodeType[H.tag] # "element"
    THEN Threw(d, [H EXCEPT !.attributes = a])
  ELSE Ok(setAttributes(d, H.tag, Entries(a)), [H EXCEPT !.attributes = a])

\* get attributes()
attributesGet(d, H) ==
  IF H.tag = Null \/ d.nodeType[H.tag] # "element"
    THEN [dom |-> d, me |-> H, threw |-> TRUE, ret |-> EmptyMap]
    ELSE [dom |-> d, me |-> [H EXCEPT !.attributes = "fresh"], threw |-> FALSE,
          ret |-> d.attrs[H.tag]]

\* set parent(parent)
parentSet(d, H, parent) ==
  IF parent = H.parent THEN Ok(d, H)
  ELSE IF parent \notin Node \/ d.nodeType[parent] \notin {"element", "fragment"}
    THEN Threw(d, [H EXCEPT !.parent = parent])
  ELSE IF H.tag = Null
    THEN Ok(appendChild(createTextNode(d, "null"), parent, NewNode(d)),
            [H EXCEPT !.parent = parent])
  ELSE IF canAppend(d, parent, H.tag)
    THEN Ok(appendChild(d, parent, H.tag), [H EXCEPT !.parent = parent])
  ELSE Threw(d, [H EXCEPT !.parent = parent])

\* what a getter returns after its call of the parent setter
Returning(s) == [dom |-> s.dom, me |-> s.me, threw |-> s.threw, ret |-> s.me.parent]

\* a parent getter that defaults to document.body without attaching the node
parentGetDetached1(d, me) ==
  IF me.parent # Null
    THEN [dom |-> d, me |-> me, threw |-> FALSE, ret |-> me.parent]
    ELSE [dom |-> d, me |-> [me EXCEPT !.parent = Body], threw |-> FALSE, ret |-> Body]

\* get parent(), after this._parent = this.tag.parentNode
parentGet1(d, me) ==
  IF me.parent # Null
    THEN [dom |-> d, me |-> me, threw |-> FALSE, ret |-> me.parent]
    ELSE Returning(parentSet(d, me, Body))

\* get parent()
parentGet(d, H) ==
  IF H.tag = Null THEN [dom |-> d, me |-> H, threw |-> TRUE, ret |-> Null]
  ELSE parentGet1(d, [H EXCEPT !.parent = parentNode(d, H.tag)])

\* the length of the array the relatives getter fills: one more than the
\* last index it assigns
relativeLength(rel, tag) ==
  IF \A i \in 1..Len(rel) : rel[i] = tag THEN 0
  ELSE CHOOSE i \in 1..Len(rel) :
         rel[i] # tag /\ \A j \in 1..Len(rel) : rel[j] # tag => j <= i

\* the array the relatives getter fills: relativeArray[i] = relatives[i] for
\* every i whose element is not the tag, so the tag's index stays a hole
relativeArray(rel, tag) ==
  [i \in 1..relativeLength(rel, tag) |-> IF rel[i] # tag THEN rel[i] ELSE Null]

\* get relatives(), after this.parent has been read
relativesGet1(p, arr) ==
  IF p.threw THEN [dom |-> p.dom, me |-> p.me, threw |-> TRUE, ret |-> <<>>]
  ELSE [dom |-> p.dom, me |-> [p.me EXCEPT !.relatives = arr], threw |-> FALSE,
        ret |-> arr]

relativesOf(p, tag) ==
  relativesGet1(p, IF p.threw THEN <<>>
                   ELSE relativeArray(children(p.dom, p.ret), tag))

\* get relatives()
relativesGet(d, H) == relativesOf(parentGet(d, H), H.tag)

\* array.splice(start, 0, item) for start >= 0; holes keep their place
splice(arr, start, item) ==
  IF start > Len(arr) THEN Append(arr, item)
  ELSE SubSeq(arr, 1, start) \o <<item>> \o SubSeq(arr, start + 1, Len(arr))

\* the switch of toPosition
positioned(arr, pos, tag) ==
  CASE pos.kw = "first" -> splice(arr, 0, tag)
    [] pos.kw = "last" -> Append(arr, tag)
    [] OTHER -> splice(arr, pos.k, tag)

\* the loop of toPosition: fragment.appendChild(item) for each item; the
\* hole of a sparse array is read as undefined, which appendChild refuses
RECURSIVE appendItems(_, _, _, _)
appendItems(d, f, list, i) ==
  IF i > Len(list) THEN [dom |-> d, threw |-> FALSE]
  ELSE IF canAppend(d, f, list[i])
    THEN appendItems(appendChild(d, f, list[i]), f, list, i + 1)
  ELSE [dom |-> d, threw |-> TRUE]

\* a fragment left empty is referenced by nothing: its node is reclaimed
collect(d, f) ==
  IF d.childNodes[f] = <<>> THEN [d EXCEPT !.nodeType[f] = "free"] ELSE d

\* the end of toPosition: this._parent.appendChild(fragment), when the loop
\* has not thrown
toPosition2(me, f, a) ==
  IF a.threw THEN Threw(collect(a.dom, f), me)
  ELSE IF canAppend(a.dom, me.parent, f)
    THEN Ok(collect(appendFragment(a.dom, me.parent, f), f), me)
  ELSE Threw(collect(a.dom, f), me)

\* toPosition, after this.relatives has been read
toPosition1(r, pos) ==
  IF r.threw THEN Threw(r.dom, r.me)
  ELSE toPosition2(r.me, NewNode(r.dom),
                   appendItems(createDocumentFragment(r.dom), NewNode(r.dom),
                               positioned(r.ret, pos, r.me.tag), 1))

\* toPosition(position)
toPosition(d, H, pos) == toPosition1(relativesGet(d, H), pos)

\* a remove() that detaches the node and keeps the handle's reference to it
removeKeepingReference(d, H) ==
  IF H.tag = Null THEN Threw(d, H)
  ELSE Ok(removeNode(d, H.tag), H)

\* remove()
remove(d, H) ==
  IF H.tag = Null THEN Threw(d, H)
  ELSE Ok(removeNode(d, H.tag), [H EXCEPT !.tag = Null])

\* reference(tag), after this.remove()
reference1(r, n) == IF r.threw THEN r ELSE Ok(r.dom, [r.me EXCEPT !.tag = n])

\* reference(tag)
reference(d, H, n) == reference1(remove(d, H), n)

(***************************************************************************)
(* Initial state: a document whose body holds two div elements, no handle. *)
(***************************************************************************)
NoHandle ==
  [attributes |-> "undefined", children |-> NoChildren, live |-> FALSE,
   parent |-> Null, relatives |-> <<>>, tag |-> Null, type |-> ""]

NoTag ==
  [element |-> Null, live |-> FALSE, name |-> "", parent |-> Null]

InitDom ==
  [attrs |-> [n \in Node |-> EmptyMap],
   childNodes |-> [n \in Node |-> IF n = Body THEN <<2, 3>> ELSE <<>>],
   data |-> [n \in Node |-> ""],
   nodeType |-> [n \in Node |-> IF n <= 3 THEN "element" ELSE "free"],
   tagName |-> [n \in Node |-> IF n = Body THEN "body" ELSE IF n <= 3 THEN "div" ELSE ""]]

NoArgs ==
  [attributes |-> "undefined", children |-> NoChildren, node |-> Null, pos |-> First,
   type |-> ""]

Call(op, h, threw, args) ==
  [op |-> op, h |-> h, threw |-> threw, args |-> args,
   pre |-> [dom |-> dom, legacy |-> legacy, tags |-> tags]]

Init ==
  /\ dom = InitDom
  /\ legacy = [h \in Handle |-> NoHandle]
  /\ tags = [t \in TagHandle |-> NoTag]
  /\ last = [args |-> NoArgs, h |-> Null, op |-> "none",
             pre |-> [dom |-> InitDom, legacy |-> [h \in Handle |-> NoHandle],
                      tags |-> [t \in TagHandle |-> NoTag]],
             threw |-> FALSE]
  /\ ops = 0

(***************************************************************************)
(* The calls on TagLegacy handles.  last records the call just made, its   *)
(* arguments and the state it was made in.                                 *)
(***************************************************************************)
Budget == ops < MaxOps /\ ops' = ops + 1

Strings(items) == Cardinality({i \in 1..Len(items) : items[i].k = "string"})

\* the effect of a call on handle h with outcome r
Commit(op, h, r, args) ==
  /\ dom' = r.dom
  /\ legacy' = [legacy EXCEPT ![h] = r.me]
  /\ last' = Call(op, h, r.threw, args)
  /\ UNCHANGED tags

\* the effect of a constructor call: a constructor that throws yields no handle
CommitNew(h, r, args) ==
  /\ dom' = r.dom
  /\ legacy' = IF r.threw THEN legacy ELSE [legacy EXCEPT ![h] = r.me]
  /\ last' = Call("new", h, r.threw, args)
  /\ UNCHANGED tags

New(h, type, attributes, parent, kids) ==
  /\ Budget
  /\ ~legacy[h].live
  /\ \A g \in Handle : g < h => legacy[g].live
  /\ Cardinality(Free(dom)) >= 1 + Strings(kids.items)
  /\ CommitNew(h, constructor(dom, type, attributes, parent, kids),
               [NoArgs EXCEPT !.type = type, !.attributes = attributes,
                              !.node = parent, !.children = kids])

SetAttributes(h, a) ==
  /\ Budget
  /\ legacy[h].live
  /\ Commit("set attributes", h, attributesSet(dom, legacy[h], a),
            [NoArgs EXCEPT !.attributes = a])

GetAttributes(h) ==
  /\ Budget
  /\ legacy[h].live
  /\ Commit("get attributes", h, attributesGet(dom, legacy[h]), NoArgs)

SetParent(h, parent) ==
  /\ Budget
  /\ legacy[h].live
  /\ (legacy[h].tag = Null => Free(dom) # {})
  /\ Commit("set parent", h, parentSet(dom, legacy[h], parent),
            [NoArgs EXCEPT !.node = parent])

GetParent(h) ==
  /\ Budget
  /\ legacy[h].live
  /\ Commit("get parent", h, parentGet(dom, legacy[h]), NoArgs)

GetRelatives(h) ==
  /\ Budget
  /\ legacy[h].live
  /\ Commit("get relatives", h, relativesGet(dom, legacy[h]), NoArgs)

ToPosition(h, pos) ==
  /\ Budget
  /\ legacy[h].live
  /\ Free(dom) # {}
  /\ Commit("toPosition", h, toPosition(dom, legacy[h], pos),
            [NoArgs EXCEPT !.pos = pos])

Remove(h) ==
  /\ Budget
  /\ legacy[h].live
  /\ Commit("remove", h, remove(dom, legacy[h]), NoArgs)

Reference(h, n) ==
  /\ Budget
  /\ legacy[h].live
  /\ Commit("reference", h, reference(dom, legacy[h], n),
            [NoArgs EXCEPT !.node = n])

(***************************************************************************)
(* The arguments the callers pass.                                         *)
(***************************************************************************)
MaxChildren == 2
MaxIndex == 2

Strs == {"a", "b"}
\* the elements a caller passes as a child or adopts: any but document.body
Adoptable(d) == Elements(d) \ {Body}
StrEntries == {Str(s) : s \in Strs}
ChildEntries(d) == StrEntries \cup {Ref(n) : n \in Adoptable(d)}
ChildArrays(d) ==
  {NoChildren} \cup
  {CallerArray(s) : s \in UNION {[1..n -> ChildEntries(d)] : n \in 1..MaxChildren}}
Positions == {First, Last} \cup {Index(k) : k \in 0..MaxIndex}
\* an attribute mapping of the caller, or none
AttrArgs == {"undefined"} \cup AttrObjs

\* The calls of the main specification.  Its constructor calls make a "ul"
\* with no child array, under a parent that is an element other than
\* document.body or under none; SpecNew below makes the constructor calls
\* with every argument.
Next ==
  \/ \E h \in Handle, a \in AttrArgs,
        parent \in {Null} \cup Adoptable(dom) :
       New(h, "ul", a, parent, NoChildren)
  \/ \E h \in Handle, a \in AttrObjs : SetAttributes(h, a)
  \/ \E h \in Handle : GetAttributes(h)
  \/ \E h \in Handle : \E parent \in Elements(dom) \cup {HandleRef(h)} :
       SetParent(h, parent)
  \/ \E h \in Handle : GetParent(h)
  \/ \E h \in Handle : GetRelatives(h)
  \/ \E h \in Handle, pos \in Positions : ToPosition(h, pos)
  \/ \E h \in Handle : Remove(h)
  \/ \E h \in Handle, n \in Adoptable(dom) : Reference(h, n)

Spec == Init /\ [][Next]_vars

(***************************************************************************)
(* SpecNew: one constructor call, with every type, attribute mapping,      *)
(* parent and child array of the bounds, made on one of three documents:   *)
(* body > div, div;  body > div > div;  body > div and a detached div.     *)
(***************************************************************************)
Documents ==
  {InitDom,
   [InitDom EXCEPT !.childNodes[Body] = <<2>>, !.childNodes[2] = <<3>>],
   [InitDom EXCEPT !.childNodes[Body] = <<2>>]}

InitNew ==
  /\ dom \in Documents
  /\ legacy = [h \in Handle |-> NoHandle]
  /\ tags = [t \in TagHandle |-> NoTag]
  /\ last = [args |-> NoArgs, h |-> Null, op |-> "none",
             pre |-> [dom |-> InitDom, legacy |-> [h \in Handle |-> NoHandle],
                      tags |-> [t \in TagHandle |-> NoTag]],
             threw |-> FALSE]
  /\ ops = MaxOps - 1

NextNew ==
  \E h \in Handle, type \in Types, a \in AttrArgs,
     parent \in {Null} \cup Elements(dom), kids \in ChildArrays(dom) :
    New(h, type, a, parent, kids)

SpecNew == InitNew /\ [][NextNew]_vars

(***************************************************************************)
(* Tag (src/unnamed/part_000).  A handle is a record of its element and of *)
(* stored.name ("" while unset) and stored.parent.                         *)
(***************************************************************************)
\* a parent argument: a Tag handle, an element, or undefined
TagRef(t) == [id |-> t, k |-> "tag"]
ElementRef(n) == [id |-> n, k |-> "element"]
Undefined == [id |-> Null, k |-> "undefined"]
\* stored.parent: unset, null, a Tag handle, or a new Tag made for an element
Unset == [id |-> Null, k |-> "unset"]
Wrapper(n) == [id |-> n, k |-> "wrapper"]

\* new Tag(element): an element is wrapped, anything else gives a new div
tagConstructor(d, element) ==
  IF element \in Node /\ d.nodeType[element] = "element"
    THEN [dom |-> d,
          me |-> [live |-> TRUE, element |-> element, name |-> "", parent |-> Unset],
          threw |-> FALSE]
    ELSE [dom |-> createElement(d, "div"),
          me |-> [live |-> TRUE, element |-> NewNode(d), name |-> "", parent |-> Unset],
          threw |-> FALSE]

\* a fix() that forgets the stored name and always recreates a div
fixAsDiv(d, T) ==
  IF T.element = Null
    THEN [dom |-> createElement(d, "div"), me |-> [T EXCEPT !.element = NewNode(d)]]
    ELSE [dom |-> d, me |-> T]

\* fix()
fix(d, T) ==
  IF T.element = Null
    THEN [dom |-> createElement(d, IF T.name # "" THEN T.name ELSE "div"),
          me |-> [T EXCEPT !.element = NewNode(d)]]
    ELSE [dom |-> d, me |-> T]

\* parent.appendChild(this.element) and the store of the new parent
tagAppendTo(f, pe, stored) ==
  IF canAppend(f.dom, pe, f.me.element)
    THEN Ok(appendChild(f.dom, pe, f.me.element), [f.me EXCEPT !.parent = stored])
    ELSE Threw(f.dom, f.me)

\* set parent(parent), after fix(); pe is parent.element when parent is a Tag
tagParentSet1(f, parent, pe) ==
  IF parent.k = "tag" /\ pe # f.me.element THEN tagAppendTo(f, pe, parent)
  ELSE IF parent.k = "element" /\ parent.id # f.me.element
    THEN tagAppendTo(f, parent.id, Wrapper(parent.id))
  ELSE IF parent.k = "undefined"
    \* this.parent is a Tag, which has no removeChild
    THEN Threw(f.dom, f.me)
  ELSE Ok(f.dom, f.me)

\* set parent(parent) of the handle t
tagParentSet(d, ts, t, parent) ==
  tagParentSet1(fix(d, ts[t]), parent,
                IF parent.k # "tag" THEN Null
                ELSE IF parent.id = t THEN fix(d, ts[t]).me.element
                ELSE ts[parent.id].element)

CommitTag(op, t, r, args) ==
  /\ dom' = r.dom
  /\ tags' = [tags EXCEPT ![t] = r.me]
  /\ last' = Call(op, t, r.threw, args)
  /\ UNCHANGED legacy

TagNew(t, element) ==
  /\ Budget
  /\ ~tags[t].live
  /\ \A u \in TagHandle : u < t => tags[u].live
  /\ Free(dom) # {}
  /\ CommitTag("Tag new", t, tagConstructor(dom, element),
               [NoArgs EXCEPT !.node = element])

TagSetParent(t, parent) ==
  /\ Budget
  /\ tags[t].live
  /\ (tags[t].element = Null => Free(dom) # {})
  /\ CommitTag("Tag set parent", t, tagParentSet(dom, tags, t, parent),
               [NoArgs EXCEPT !.node = parent.id, !.type = parent.k])

LiveTags == {t \in TagHandle : tags[t].live}

NextTag ==
  \/ \E t \in TagHandle, element \in {Null} \cup Elements(dom) : TagNew(t, element)
  \/ \E t \in TagHandle :
       \E parent \in {TagRef(u) : u \in LiveTags} \cup
                     {ElementRef(n) : n \in Elements(dom)} \cup {Undefined} :
         TagSetParent(t, parent)

SpecTag == Init /\ [][NextTag]_vars

(***************************************************************************)
(* Tag: the name, content and attributes setters.  stored.content,         *)
(* stored.contentOld and stored.attributes are written and never read;     *)
(* they are left out of the handle's record.                               *)
(***************************************************************************)
\* node.parentElement: the parent when it is an element
parentElement(d, n) ==
  IF parentNode(d, n) # Null /\ d.nodeType[parentNode(d, n)] = "element"
    THEN parentNode(d, n)
    ELSE Null

\* parent.replaceChild(new, old) for a new node without a parent
replaceChild(d, p, new, old) ==
  [d EXCEPT !.childNodes[p] =
     [i \in 1..Len(d.childNodes[p]) |->
        IF d.childNodes[p][i] = old THEN new ELSE d.childNodes[p][i]]]

\* a name argument that is no string, a content argument that is no array
\* entry of a known kind
NotString == [k |-> "other", n |-> Null, s |-> ""]
\* an entry of a content array that is a Tag handle
TagItem(t) == [k |-> "tag", n |-> t, s |-> ""]

\* the loops of the name setter: the children move to newTag and the
\* attributes are copied to it
moveContents(d, old, new) ==
  [d EXCEPT !.childNodes[new] = d.childNodes[old], !.childNodes[old] = <<>>,
            !.attrs[new] = d.attrs[old]]

\* the end of the name setter: replace the element, or remove it when it
\* has no parent element
replaceElement(d, old, new) ==
  IF parentElement(d, old) # Null
    THEN replaceChild(d, parentElement(d, old), new, old)
    ELSE removeNode(d, old)

\* set name(name), after fix(); d holds the new element newTag
nameSet1(d, me, newTag, name) ==
  Ok(replaceElement(moveContents(d, me.element, newTag), me.element, newTag),
     [me EXCEPT !.element = newTag, !.name = name])

\* set name(name)
nameSet0(f, name) ==
  IF name.k = "string"
    THEN nameSet1(createElement(f.dom, name.s), f.me, NewNode(f.dom), name.s)
    ELSE Ok(f.dom, f.me)

nameSet(d, T, name) == nameSet0(fix(d, T), name)

\* get attributes() iterates with for(item of ...): item is declared
\* nowhere and a class body is strict code, so the first iteration throws a
\* ReferenceError; an element without attributes gives {}
tagAttributesGet(d, T) ==
  [ret |-> EmptyMap, threw |-> d.attrs[T.element] # EmptyMap]

\* the two loops of the attributes setter: the attributes absent from the
\* new mapping are removed, those of the mapping are set
replaceAttributes(d, n, entries) ==
  setAttributes([d EXCEPT !.attrs[n] =
                   [x \in (DOMAIN d.attrs[n]) \cap (DOMAIN entries) |-> d.attrs[n][x]]],
                n, entries)

\* set attributes(attributes), after fix()
tagAttributesSet1(f, a) ==
  IF a = "undefined" THEN Ok(f.dom, f.me)
  ELSE IF tagAttributesGet(f.dom, f.me).threw THEN Threw(f.dom, f.me)
  ELSE Ok(replaceAttributes(f.dom, f.me.element, Entries(a)), f.me)

\* set attributes(attributes)
tagAttributesSet(d, T, a) == tagAttributesSet1(fix(d, T), a)

\* the outcome of a setter that writes several handles
OkAll(d, ts) == [dom |-> d, tags |-> ts, threw |-> FALSE]
ThrewAll(d, ts) == [dom |-> d, tags |-> ts, threw |-> TRUE]

\* the second loop of the content setter, from entry i on.  new Tag(text)
\* wraps a div of its own that only stored.content refers to.
RECURSIVE contentAppend(_, _, _, _, _)
contentNext(r, ts, t, u, items, i) ==
  IF r.threw THEN ThrewAll(r.dom, [ts EXCEPT ![u] = r.me])
  ELSE contentAppend(r.dom, [ts EXCEPT ![u] = r.me], t, items, i + 1)

contentAppend(d, ts, t, items, i) ==
  IF i > Len(items) THEN OkAll(d, ts)
  ELSE IF items[i].k = "string"
    THEN contentAppend(appendChild(createTextNode(d, items[i].s), ts[t].element, NewNode(d)),
                       ts, t, items, i + 1)
  ELSE IF items[i].k = "tag"
    THEN contentNext(tagParentSet(d, ts, items[i].n, TagRef(t)), ts, t, items[i].n, items, i)
  ELSE IF items[i].k = "node"
    THEN IF canAppend(d, ts[t].element, items[i].n)
           THEN contentAppend(appendChild(d, ts[t].element, items[i].n), ts, t, items, i + 1)
           ELSE ThrewAll(d, ts)
  ELSE contentAppend(d, ts, t, items, i + 1)

\* set content(content), after fix().  The first loop walks this.content,
\* an array of Tag wrappers, and hands each to removeChild, which takes
\* nodes only: it throws a TypeError at the first child.
contentSet1(f, ts, t, content) ==
  IF content.ref = "undefined" THEN OkAll(f.dom, [ts EXCEPT ![t] = f.me])
  ELSE IF f.dom.childNodes[f.me.element] # <<>> THEN ThrewAll(f.dom, [ts EXCEPT ![t] = f.me])
  ELSE contentAppend(f.dom, [ts EXCEPT ![t] = f.me], t, content.items, 1)

\* set content(content) of the handle t
contentSet(d, ts, t, content) == contentSet1(fix(d, ts[t]), ts, t, content)

CommitTags(op, t, r, args) ==
  /\ dom' = r.dom
  /\ tags' = r.tags
  /\ last' = Call(op, t, r.threw, args)
  /\ UNCHANGED legacy

TagSetName(t, name) ==
  /\ Budget
  /\ tags[t].live
  /\ Cardinality(Free(dom)) >= 2
  /\ CommitTag("Tag set name", t, nameSet(dom, tags[t], name),
               [NoArgs EXCEPT !.type = name.s])

TagSetAttributes(t, a) ==
  /\ Budget
  /\ tags[t].live
  /\ Free(dom) # {}
  /\ CommitTag("Tag set attributes", t, tagAttributesSet(dom, tags[t], a),
               [NoArgs EXCEPT !.attributes = a])

TagSetContent(t, content) ==
  /\ Budget
  /\ tags[t].live
  /\ Cardinality(Free(dom)) >= 1 + Len(content.items)
  /\ CommitTags("Tag set content", t, contentSet(dom, tags, t, content),
                [NoArgs EXCEPT !.children = content])

\* the caller deletes the element of a handle: the state fix() looks for
TagDelete(t) ==
  /\ Budget
  /\ tags[t].live
  /\ tags[t].element # Null
  /\ dom' = dom
  /\ tags' = [tags EXCEPT ![t].element = Null]
  /\ last' = Call("Tag delete", t, FALSE, NoArgs)
  /\ UNCHANGED legacy

(***************************************************************************)
(* SpecTagSet: the setters of two Tag handles that wrap elements of one of *)
(* two documents:  body > (div#list1 > "t"), div, the handles on the first *)
(* and the second div;  body > div and a fragment > div, the handles on    *)
(* the div of the fragment and the div of the body.                        *)
(***************************************************************************)
TagDocA ==
  [InitDom EXCEPT !.nodeType[4] = "text", !.data[4] = "t", !.childNodes[2] = <<4>>,
                  !.attrs[2] = Entries("A1")]
TagDocB ==
  [InitDom EXCEPT !.nodeType[3] = "fragment", !.tagName[3] = "",
                  !.nodeType[4] = "element", !.tagName[4] = "div",
                  !.childNodes[Body] = <<2>>, !.childNodes[3] = <<4>>]

\* the handles new Tag(first) and new Tag(second) on the document d
Wrapping(d, first, second) ==
  [t \in TagHandle |-> IF t = 1 THEN tagConstructor(d, first).me
                       ELSE IF t = 2 THEN tagConstructor(d, second).me
                       ELSE NoTag]

InitTagSet ==
  /\ \/ dom = TagDocA /\ tags = Wrapping(TagDocA, 2, 3)
     \/ dom = TagDocB /\ tags = Wrapping(TagDocB, 4, 2)
  /\ legacy = [h \in Handle |-> NoHandle]
  /\ last = [args |-> NoArgs, h |-> Null, op |-> "none",
             pre |-> [dom |-> InitDom, legacy |-> [h \in Handle |-> NoHandle],
                      tags |-> [t \in TagHandle |-> NoTag]],
             threw |-> FALSE]
  /\ ops = 0

\* the elements the caller holds: document.body and those of its handles
Held == {Body} \cup ({tags[t].element : t \in LiveTags} \ {Null})
Names == {Str(s) : s \in Types} \cup {NotString}
Parents == {TagRef(u) : u \in LiveTags} \cup {ElementRef(n) : n \in Held} \cup {Undefined}
\* the entries of the content arrays passed to the handle t: a string,
\* something that is neither string, Tag nor element, another handle, and
\* the element of another handle
ContentLiterals == {Str("a"), NotString}
ContentItems(t) ==
  ContentLiterals \cup {TagItem(u) : u \in LiveTags \ {t}}
    \cup {Ref(n) : n \in Held \ {Body, tags[t].element}}
ContentArrays(t) ==
  {NoChildren} \cup
  {CallerArray(s) : s \in UNION {[1..n -> ContentItems(t)] : n \in 0..MaxChildren}}

\* the setters are called on the first handle; the second is what the caller
\* passes as a parent or as an entry of a content array
FirstTag == {t \in LiveTags : \A u \in LiveTags : t <= u}

NextTagSet ==
  \/ \E t \in FirstTag, name \in Names : TagSetName(t, name)
  \/ \E t \in FirstTag, parent \in Parents : TagSetParent(t, parent)
  \/ \E t \in FirstTag, a \in AttrArgs : TagSetAttributes(t, a)
  \/ \E t \in FirstTag : \E content \in ContentArrays(t) : TagSetContent(t, content)
  \/ \E t \in LiveTags : TagDelete(t)

SpecTagSet == InitTagSet /\ [][NextTagSet]_vars

(***************************************************************************)
(* TagLegacy: the type and children accessors.  Their setters build the    *)
(* replacement with new Tag(...), the class of the same file whose         *)
(* constructor takes (element, debug).                                     *)
(***************************************************************************)
\* Element.tagName of an HTML element, and String.toLowerCase on it
toUpperCase(s) ==
  CASE s = "ul" -> "UL" [] s = "p" -> "P" [] s = "div" -> "DIV"
    [] s = "body" -> "BODY" [] OTHER -> s
toLowerCase(s) ==
  CASE s = "UL" -> "ul" [] s = "P" -> "p" [] s = "DIV" -> "div"
    [] s = "BODY" -> "body" [] OTHER -> s

\* the child arrays the callers own, objects with an identity
Arrays == {"L1", "L2"}
ItemsL1 == <<Str("a"), Ref(2)>>
ItemsL2 == <<Str("b")>>
Items(l) == IF l = "L1" THEN ItemsL1 ELSE ItemsL2
ArrayObj(l) == [items |-> Items(l), ref |-> l]

\* get type()
typeGet(d, H) ==
  IF H.tag = Null THEN [dom |-> d, me |-> H, threw |-> TRUE, ret |-> ""]
  ELSE [dom |-> d, me |-> [H EXCEPT !.type = toLowerCase(toUpperCase(d.tagName[H.tag]))],
        threw |-> FALSE, ret |-> toLowerCase(toUpperCase(d.tagName[H.tag]))]

\* get children(): a new array of the node's childNodes
childrenGet(d, H) ==
  IF H.tag = Null THEN [dom |-> d, me |-> H, threw |-> TRUE, ret |-> <<>>]
  ELSE [dom |-> d,
        me |-> [H EXCEPT !.children =
                  [ref |-> "fresh",
                   items |-> [i \in 1..Len(d.childNodes[H.tag]) |-> Ref(d.childNodes[H.tag][i])]]],
        threw |-> FALSE, ret |-> d.childNodes[H.tag]]

\* newTag.tag: a Tag has an element and no tag property
tagOf(T) == Null

\* an element nothing refers to any more is reclaimed
discard(d, n) ==
  [d EXCEPT !.nodeType[n] = "free", !.tagName[n] = "", !.attrs[n] = EmptyMap]

\* the end of both setters: this.remove() and this._tag = newTag.tag, for the
\* Tag t just made on element div; afterwards nothing refers to t
replaced(r, t, div) ==
  IF r.threw THEN Threw(discard(r.dom, div), r.me)
  ELSE Ok(discard(r.dom, div), [r.me EXCEPT !.tag = tagOf(t.me)])

\* let newTag = new Tag(type, attributes, parent, children): its first
\* argument is a string, no element, so the Tag wraps a new div
rebuild(d, me) == replaced(remove(tagConstructor(d, Null).dom, me), tagConstructor(d, Null), NewNode(d))

\* the arguments of new Tag, read one after the other; a getter that throws
\* ends the setter
rebuild3(c) == IF c.threw THEN Threw(c.dom, c.me) ELSE rebuild(c.dom, c.me)
rebuild2(p) == IF p.threw THEN Threw(p.dom, p.me) ELSE rebuild3(childrenGet(p.dom, p.me))
rebuild1(a) == IF a.threw THEN Threw(a.dom, a.me) ELSE rebuild2(parentGet(a.dom, a.me))

\* set type(type)
typeSet(d, H, type) ==
  IF type = H.type THEN Ok(d, H)
  ELSE rebuild1(attributesGet(d, [H EXCEPT !.type = type]))

\* set children(children), after this.type, this.attributes and this.parent
\* have been read: this._children is passed as it is
childrenSet3(p) == IF p.threw THEN Threw(p.dom, p.me) ELSE rebuild(p.dom, p.me)
childrenSet2(a) == IF a.threw THEN Threw(a.dom, a.me) ELSE childrenSet3(parentGet(a.dom, a.me))
childrenSet1(t) == IF t.threw THEN Threw(t.dom, t.me) ELSE childrenSet2(attributesGet(t.dom, t.me))

\* set children(children)
childrenSet(d, H, kids) ==
  IF kids = H.children THEN Ok(d, H)
  ELSE childrenSet1(typeGet(d, [H EXCEPT !.children = kids]))

SetType(h, type) ==
  /\ Budget
  /\ legacy[h].live
  /\ Free(dom) # {}
  /\ Commit("set type", h, typeSet(dom, legacy[h], type), [NoArgs EXCEPT !.type = type])

GetType(h) ==
  /\ Budget
  /\ legacy[h].live
  /\ Commit("get type", h, typeGet(dom, legacy[h]), NoArgs)

SetChildren(h, kids) ==
  /\ Budget
  /\ legacy[h].live
  /\ Free(dom) # {}
  /\ Commit("set children", h, childrenSet(dom, legacy[h], kids),
            [NoArgs EXCEPT !.children = kids])

GetChildren(h) ==
  /\ Budget
  /\ legacy[h].live
  /\ Commit("get children", h, childrenGet(dom, legacy[h]), NoArgs)

(***************************************************************************)
(* SpecLegacy: the calls that rebuild or re-read a TagLegacy handle, made  *)
(* on one of the three documents of SpecNew.                               *)
(***************************************************************************)
InitLegacy ==
  /\ dom \in Documents
  /\ legacy = [h \in Handle |-> NoHandle]
  /\ tags = [t \in TagHandle |-> NoTag]
  /\ last = [args |-> NoArgs, h |-> Null, op |-> "none",
             pre |-> [dom |-> InitDom, legacy |-> [h \in Handle |-> NoHandle],
                      tags |-> [t \in TagHandle |-> NoTag]],
             threw |-> FALSE]
  /\ ops = 0

\* the arguments of the constructor calls of SpecLegacy
LegacyAttrs == {"undefined", "A2"}
LegacyArrays == {NoChildren} \cup {ArrayObj(l) : l \in Arrays}

NextLegacy ==
  \/ \E h \in Handle, type \in Types, a \in LegacyAttrs, kids \in LegacyArrays :
       New(h, type, a, Null, kids)
  \/ \E h \in Handle, type \in Types : SetType(h, type)
  \/ \E h \in Handle : GetType(h)
  \/ \E h \in Handle, l \in Arrays : SetChildren(h, ArrayObj(l))
  \/ \E h \in Handle : GetChildren(h)
  \/ \E h \in Handle : GetParent(h)
  \/ \E h \in Handle : Remove(h)
  \/ \E h \in Handle, n \in Adoptable(dom) : Reference(h, n)

SpecLegacy == InitLegacy /\ [][NextLegacy]_vars

(***************************************************************************)
(* The call just made, for the properties below.                           *)
(***************************************************************************)
Called(op) == last.op = op /\ last.h \in Handle
Pre == last.pre.dom
\* the handle the call was made on, before and after the call
Was == last.pre.legacy[last.h]
Now == legacy[last.h]
\* before the call the handle owned a node that was the child of a parent
OwnedChild == Was.tag # Null /\ parentNode(Pre, Was.tag) # Null
WasParent == parentNode(Pre, Was.tag)
\* the sibling elements of the handle's node before the call, in document order
WasSiblings == Without(children(Pre, WasParent), Was.tag)
\* how many of those siblings precede node n under its parent now
Preceding(n) ==
  Cardinality({i \in 1..Len(WasSiblings) :
     /\ InSeq(WasSiblings[i], dom.childNodes[parentNode(dom, n)])
     /\ IndexOf(WasSiblings[i], dom.childNodes[parentNode(dom, n)])
          < IndexOf(n, dom.childNodes[parentNode(dom, n)])})

\* C1: toPosition(k), for a handle whose node is a child of P with n sibling
\* elements and 0 <= k < n, completes with the node a child of P and exactly
\* k of those siblings before it, wherever the node was among P's children.
C1_ToPositionIndex ==
  (/\ Called("toPosition")
   /\ last.args.pos.kw = "index"
   /\ OwnedChild
   /\ last.args.pos.k < Len(WasSiblings))
  => (/\ ~last.threw
      /\ parentNode(dom, Was.tag) = WasParent
      /\ Preceding(Was.tag) = last.args.pos.k)

\* C2: toPosition("first") completes with the handle's node the first of its
\* parent's element children, and toPosition("last") with it the last,
\* wherever the node was among them.
C2_ToPositionFirstLast ==
  (/\ Called("toPosition")
   /\ last.args.pos.kw \in {"first", "last"}
   /\ OwnedChild)
  => (/\ ~last.threw
      /\ parentNode(dom, Was.tag) = WasParent
      /\ last.args.pos.kw = "first" => Head(children(dom, WasParent)) = Was.tag
      /\ last.args.pos.kw = "last" =>
           children(dom, WasParent)[Len(children(dom, WasParent))] = Was.tag)

\* C3: toPosition(p) only reorders: the node keeps its parent, every node of
\* the document keeps its parent (the parent's set of children is the same),
\* and the parent's other element children keep their relative order.
C3_ToPositionReorders ==
  (Called("toPosition") /\ OwnedChild)
  => (/\ \A n \in Node : parentNode(dom, n) = parentNode(Pre, n)
      /\ Without(children(dom, WasParent), Was.tag) = WasSiblings)

\* C4: reading relatives returns the parent's element children except the
\* handle's node, each once, in document order, and nothing else, wherever the
\* node is among them.
C4_Relatives ==
  (Called("get relatives") /\ OwnedChild)
  => (/\ ~last.threw
      /\ Now.relatives = WasSiblings)

\* C6: after attributes = A on a handle that owns an element, reading
\* attributes gives every key of A with A's value and every earlier attribute
\* absent from A with its old value.
C6_AttributesAdditive ==
  (Called("set attributes") /\ Was.tag # Null)
  => (/\ ~last.threw
      /\ ~attributesGet(dom, Now).threw
      /\ \A key \in DOMAIN Entries(last.args.attributes) :
           /\ key \in DOMAIN attributesGet(dom, Now).ret
           /\ attributesGet(dom, Now).ret[key] = Entries(last.args.attributes)[key]
      /\ \A key \in (DOMAIN Pre.attrs[Was.tag]) \ DOMAIN Entries(last.args.attributes) :
           /\ key \in DOMAIN attributesGet(dom, Now).ret
           /\ attributesGet(dom, Now).ret[key] = Pre.attrs[Was.tag][key])

\* C7: after parent = P, for a handle that owns a node and an element P that
\* is neither the node nor inside it, reading parent returns P and the node
\* is a child of P, whatever calls came before.
C7_ParentRoundTrip ==
  (/\ Called("set parent")
   /\ Was.tag # Null
   /\ last.args.node \in Node
   /\ ~IsInclusiveAncestor(Pre, Was.tag, last.args.node))
  => (/\ ~last.threw
      /\ parentGet(dom, Now).ret = last.args.node
      /\ parentNode(parentGet(dom, Now).dom, Was.tag) = last.args.node)

\* C8: parent = the handle's own node changes nothing in the document and
\* does not record the node as its own parent.
C8_SelfParentRejected ==
  (/\ Called("set parent")
   /\ Was.tag # Null
   /\ last.args.node = Was.tag)
  => (/\ dom = Pre
      /\ Now.parent # last.args.node)

\* C8, for Tag: parent = the handle itself, or its own element, changes
\* neither the document nor the handle.
C8_TagSelfParentRejected ==
  (/\ last.op = "Tag set parent"
   /\ \/ last.args.type = "tag" /\ last.args.node = last.h
      \/ last.args.type = "element" /\ last.args.node = last.pre.tags[last.h].element)
  => (/\ dom = Pre
      /\ tags = last.pre.tags)

\* C9: remove() on a handle that owns a node leaves the handle's node
\* reference null and the node without a parent; every other node keeps its
\* parent and its place among its siblings, and nothing else changes.
C9_Remove ==
  (Called("remove") /\ Was.tag # Null)
  => (/\ ~last.threw
      /\ Now.tag = Null
      /\ parentNode(dom, Was.tag) = Null
      /\ \A p \in Node : dom.childNodes[p] = Without(Pre.childNodes[p], Was.tag)
      /\ dom.nodeType = Pre.nodeType
      /\ dom.attrs = Pre.attrs
      /\ \A g \in Handle : g # last.h => legacy[g] = last.pre.legacy[g])

\* C9 witness: a node with a sibling after it has been removed
C9_Removed ==
  /\ Called("remove")
  /\ ~last.threw
  /\ OwnedChild
  /\ Len(Pre.childNodes[WasParent]) > IndexOf(Was.tag, Pre.childNodes[WasParent])
  /\ Now.tag = Null

\* C10: reference(n) completes and leaves the handle owning n, whether the
\* handle owned a node or had been removed.
C10_Reference ==
  Called("reference")
  => (/\ ~last.threw
      /\ Now.tag = last.args.node)

\* the parent a constructor call attaches to: the one given, or document.body
GivenParent == IF last.args.node = Null THEN Body ELSE last.args.node
GivenItems == last.args.children.items

\* the node the constructor made is a new element of the type given, with
\* the attributes given, under the parent given
C5_NewElement(t) ==
  /\ Pre.nodeType[t] = "free"
  /\ dom.nodeType[t] = "element"
  /\ dom.tagName[t] = last.args.type
  /\ \A key \in DOMAIN Entries(last.args.attributes) :
       key \in DOMAIN dom.attrs[t] /\ dom.attrs[t][key] = Entries(last.args.attributes)[key]
  /\ parentNode(dom, t) = GivenParent

\* its child nodes are the entries of the child array, in order: a new text
\* node with the text for a string, the node itself for a node
C5_NewChildren(t) ==
  /\ Len(dom.childNodes[t]) = Len(GivenItems)
  /\ \A i \in 1..Len(GivenItems) :
       IF GivenItems[i].k = "string"
         THEN /\ Pre.nodeType[dom.childNodes[t][i]] = "free"
              /\ dom.nodeType[dom.childNodes[t][i]] = "text"
              /\ dom.data[dom.childNodes[t][i]] = GivenItems[i].s
         ELSE dom.childNodes[t][i] = GivenItems[i].n

\* C5 as stated: every constructor call yields a new element of the type,
\* with the attributes, under the parent (document.body by default), whose
\* child nodes are exactly the entries of the child array in order.
C5_ConstructorAnyChildren ==
  Called("new")
  => (/\ ~last.threw
      /\ C5_NewElement(Now.tag)
      /\ C5_NewChildren(Now.tag))

\* the node entries of the child array are pairwise distinct and none is the
\* parent or an ancestor of the parent
C5_ChildrenAttachable ==
  /\ \A i, j \in 1..Len(GivenItems) :
       (i # j /\ GivenItems[i].k = "node" /\ GivenItems[j].k = "node")
         => GivenItems[i].n # GivenItems[j].n
  /\ \A i \in 1..Len(GivenItems) :
       GivenItems[i].k = "node" => ~IsInclusiveAncestor(Pre, GivenItems[i].n, GivenParent)

\* C5 amended: the same, for a child array whose node entries are pairwise
\* distinct and none of which is the parent or an ancestor of the parent.
C5_Constructor ==
  (Called("new") /\ C5_ChildrenAttachable)
  => (/\ ~last.threw
      /\ C5_NewElement(Now.tag)
      /\ C5_NewChildren(Now.tag))

\* C5 witness: a handle built under a given parent with two attributes, a
\* string child and a node child
C5_Constructed ==
  /\ Called("new")
  /\ ~last.threw
  /\ C5_ChildrenAttachable
  /\ last.args.node # Null
  /\ last.args.attributes = "A2"
  /\ Len(GivenItems) = 2
  /\ GivenItems[1].k = "string"
  /\ GivenItems[2].k = "node"
  /\ Len(dom.childNodes[Now.tag]) = 2

\* the parent the old node had, as the setters read it: the platform parent,
\* or document.body for a node that had none
WasReadParent == IF parentNode(Pre, Was.tag) = Null THEN Body ELSE parentNode(Pre, Was.tag)

\* C11: type = T2 on a handle whose cached type is another one leaves the
\* handle owning a new node of type T2 with the old node's attributes, parent
\* and children, the old node is detached and reading type returns T2;
\* assigning the cached type changes nothing.
C11_TypeRebuilds ==
  /\ (Called("set type") /\ Was.tag # Null /\ last.args.type # Was.type)
     => (/\ ~last.threw
         /\ Now.tag \in Node
         /\ Now.tag # Was.tag
         /\ dom.nodeType[Now.tag] = "element"
         /\ dom.tagName[Now.tag] = last.args.type
         /\ dom.attrs[Now.tag] = Pre.attrs[Was.tag]
         /\ parentNode(dom, Now.tag) = WasReadParent
         /\ dom.childNodes[Now.tag] = Pre.childNodes[Was.tag]
         /\ parentNode(dom, Was.tag) = Null
         /\ ~typeGet(dom, Now).threw
         /\ typeGet(dom, Now).ret = last.args.type)
  /\ (Called("set type") /\ last.args.type = Was.type)
     => (dom = Pre /\ Now = Was)

\* C12: children = L, for a list L that is not the cached list object, leaves
\* the handle owning a new node with the old node's type, attributes and
\* parent whose child nodes are the entries of L in order, and the old node
\* is detached; assigning the cached list object again changes nothing in
\* the document.
C12_ChildrenRebuilds ==
  /\ (Called("set children") /\ Was.tag # Null /\ last.args.children # Was.children)
     => (/\ ~last.threw
         /\ Now.tag \in Node
         /\ Now.tag # Was.tag
         /\ dom.nodeType[Now.tag] = "element"
         /\ dom.tagName[Now.tag] = Pre.tagName[Was.tag]
         /\ dom.attrs[Now.tag] = Pre.attrs[Was.tag]
         /\ parentNode(dom, Now.tag) = WasReadParent
         /\ C5_NewChildren(Now.tag)
         /\ parentNode(dom, Was.tag) = Null)
  /\ (Called("set children") /\ last.args.children = Was.children)
     => dom = Pre

(***************************************************************************)
(* The call just made on a Tag handle.                                     *)
(***************************************************************************)
TagSetters == {"Tag set name", "Tag set parent", "Tag set content", "Tag set attributes"}
TWas == last.pre.tags[last.h]
TNow == tags[last.h]
\* the entries of the content array passed
Passed == last.args.children.items
\* the node an entry of a content array stands for; a string stands for a
\* new text node
EntryNode(item) == IF item.k = "tag" THEN tags[item.n].element ELSE item.n
\* the content array holds strings, Tag handles and elements only, no node
\* twice, and neither the handle itself nor an element that contains its own
WellFormed ==
  /\ last.args.children.ref # "undefined"
  /\ \A i \in 1..Len(Passed) :
       /\ Passed[i].k \in {"string", "tag", "node"}
       /\ Passed[i].k = "tag" =>
            /\ Passed[i].n # last.h
            /\ ~IsInclusiveAncestor(Pre, last.pre.tags[Passed[i].n].element, TWas.element)
       /\ Passed[i].k = "node" => ~IsInclusiveAncestor(Pre, Passed[i].n, TWas.element)
  /\ \A i, j \in 1..Len(Passed) :
       (i # j /\ Passed[i].k # "string" /\ Passed[j].k # "string")
         => EntryNode(Passed[i]) # EntryNode(Passed[j])
\* the child nodes of element e are the entries passed, in order
ContentIs(e) ==
  /\ Len(dom.childNodes[e]) = Len(Passed)
  /\ \A i \in 1..Len(Passed) :
       IF Passed[i].k = "string"
         THEN /\ Pre.nodeType[dom.childNodes[e][i]] = "free"
              /\ dom.nodeType[dom.childNodes[e][i]] = "text"
              /\ dom.data[dom.childNodes[e][i]] = Passed[i].s
         ELSE dom.childNodes[e][i] = EntryNode(Passed[i])
\* the parent a parent setter was asked for: an element, that of a Tag
\* handle, or none
AskedParent ==
  IF last.args.type = "element" THEN last.args.node
  ELSE IF last.args.type = "tag" /\ last.args.node # last.h
    THEN last.pre.tags[last.args.node].element
  ELSE Null

C14_ContentReplaces ==
  (last.op = "Tag set content" /\ TWas.element # Null /\ WellFormed)
  => (/\ ~last.threw
      /\ ContentIs(TWas.element)
      /\ \A i \in 1..Len(Pre.childNodes[TWas.element]) :
           \/ parentNode(dom, Pre.childNodes[TWas.element][i]) # TWas.element
           \/ \E j \in 1..Len(Passed) :
                /\ Passed[j].k # "string"
                /\ EntryNode(Passed[j]) = Pre.childNodes[TWas.element][i])

\* stored.parent after a deparenting
NullParent == [id |-> Null, k |-> "null"]

\* C15: parent = undefined on a handle whose element has a parent completes
\* and leaves the element without a parent, out of its former parent's
\* children, and the stored parent null.
C15_Deparent ==
  (/\ last.op = "Tag set parent"
   /\ last.args.type = "undefined"
   /\ TWas.element # Null
   /\ parentNode(Pre, TWas.element) # Null)
  => (/\ ~last.threw
      /\ parentNode(dom, TWas.element) = Null
      /\ ~InSeq(TWas.element, dom.childNodes[parentNode(Pre, TWas.element)])
      /\ TNow.parent = NullParent)

\* C16: name = N, a string, replaces the handle's element by a new element
\* named N with the old element's child nodes in order and its attributes,
\* in the old element's place under its parent when it had one; the old
\* element ends without children and without a parent.
C16_Rename ==
  (last.op = "Tag set name" /\ last.args.type # "" /\ TWas.element # Null)
  => (/\ ~last.threw
      /\ TNow.element \in Node
      /\ TNow.element # TWas.element
      /\ Pre.nodeType[TNow.element] = "free"
      /\ dom.nodeType[TNow.element] = "element"
      /\ dom.tagName[TNow.element] = last.args.type
      /\ dom.childNodes[TNow.element] = Pre.childNodes[TWas.element]
      /\ dom.attrs[TNow.element] = Pre.attrs[TWas.element]
      /\ parentNode(Pre, TWas.element) # Null
           => (/\ parentNode(dom, TNow.element) = parentNode(Pre, TWas.element)
               /\ IndexOf(TNow.element, dom.childNodes[parentNode(Pre, TWas.element)])
                    = IndexOf(TWas.element, Pre.childNodes[parentNode(Pre, TWas.element)]))
      /\ dom.childNodes[TWas.element] = <<>>
      /\ parentNode(dom, TWas.element) = Null)

\* C17: reading parent on a handle that owns a node returns the node's
\* platform parent and changes nothing in the document when the node has
\* one; when it has none, the read returns document.body and appends the
\* node to document.body.
C17_ParentReadAttaches ==
  (Called("get parent") /\ Was.tag # Null)
  => (/\ ~last.threw
      /\ parentNode(Pre, Was.tag) # Null
           => (Now.parent = parentNode(Pre, Was.tag) /\ dom = Pre)
      /\ parentNode(Pre, Was.tag) = Null
           => (/\ Now.parent = Body
               /\ dom.childNodes[Body] = Append(Pre.childNodes[Body], Was.tag)
               /\ \A n \in Node \ {Body} : dom.childNodes[n] = Pre.childNodes[n]
               /\ dom.nodeType = Pre.nodeType
               /\ dom.attrs = Pre.attrs))

\* C17 witness: the parent of a handle whose node had no platform parent has
\* been read, and the document has changed
C17_ReadAttached ==
  /\ Called("get parent")
  /\ Was.tag # Null
  /\ parentNode(Pre, Was.tag) = Null
  /\ parentNode(dom, Was.tag) = Body
  /\ dom # Pre

====
